---------------------------- MODULE Spec2Model ----------------------------
(***************************************************************************)
(* A model of unicon (src/unicon.c): the unit table, the name lookup       *)
(* matchArgument, the conversion function convertUnit and the command      *)
(* line driver main.                                                       *)
(*                                                                         *)
(* C strings are sequences of one-character strings.  A double is an exact *)
(* rational n/d * 2^e2 * 5^e5 (n, d coprime with each other and with 10),  *)
(* so that every literal of the unit table (0.000621371, 1.0/2^60, ...)    *)
(* and every product and quotient of them is represented exactly with      *)
(* small integers; the result of a division by zero is NonFinite.          *)
(* Floating-point rounding error is not modelled.                          *)
(***************************************************************************)
EXTENDS Integers, Sequences, FiniteSets, TLC

VARIABLES pc, argv, main, call, out, exit, conv, lk

vars == <<pc, argv, main, call, out, exit, conv, lk>>

---------------------------------------------------------------------------
(* Arithmetic on doubles, as exact rationals.                              *)

Abs(x) == IF x < 0 THEN -x ELSE x

RECURSIVE GCD(_, _)
GCD(a, b) == IF b = 0 THEN a ELSE GCD(b, a % b)

RECURSIVE Pow(_, _)
Pow(b, k) == IF k <= 0 THEN 1 ELSE b * Pow(b, k - 1)

Min(a, b) == IF a < b THEN a ELSE b

Zero == [n |-> 0, d |-> 1, e2 |-> 0, e5 |-> 0]

NonFinite == [n |-> 0, d |-> 0, e2 |-> 0, e5 |-> 0]

IsFinite(x) == x.d # 0

RECURSIVE Norm(_, _, _, _)
Norm(n, d, e2, e5) ==
    IF n = 0 THEN Zero
    ELSE IF n % 2 = 0 THEN Norm(n \div 2, d, e2 + 1, e5)
    ELSE IF n % 5 = 0 THEN Norm(n \div 5, d, e2, e5 + 1)
    ELSE IF d % 2 = 0 THEN Norm(n, d \div 2, e2 - 1, e5)
    ELSE IF d % 5 = 0 THEN Norm(n, d \div 5, e2, e5 - 1)
    ELSE LET g == GCD(Abs(n), d)
         IN  [n |-> n \div g, d |-> d \div g, e2 |-> e2, e5 |-> e5]

\* the decimal literal m * 10^-k, e.g. 0.000621371 = Dec(621371, 9)
Dec(m, k) == Norm(m, 1, -k, -k)

\* the literal 2^k, e.g. 1152921504606846976.0 = Bin(60)
Bin(k) == [n |-> 1, d |-> 1, e2 |-> k, e5 |-> 0]

RMul(a, b) ==
    IF ~IsFinite(a) \/ ~IsFinite(b) THEN NonFinite
    ELSE LET g1 == GCD(Abs(a.n), b.d)
             g2 == GCD(Abs(b.n), a.d)
         IN  Norm((a.n \div g1) * (b.n \div g2), (a.d \div g2) * (b.d \div g1),
                  a.e2 + b.e2, a.e5 + b.e5)

RDiv(a, b) ==
    IF ~IsFinite(a) \/ ~IsFinite(b) \/ b.n = 0 THEN NonFinite
    ELSE RMul(a, [n |-> IF b.n < 0 THEN -b.d ELSE b.d, d |-> Abs(b.n),
                  e2 |-> -b.e2, e5 |-> -b.e5])

RAdd(a, b) ==
    IF ~IsFinite(a) \/ ~IsFinite(b) THEN NonFinite
    ELSE IF a.n = 0 THEN b
    ELSE IF b.n = 0 THEN a
    ELSE LET e2 == Min(a.e2, b.e2)
             e5 == Min(a.e5, b.e5)
             g  == GCD(a.d, b.d)
             na == a.n * Pow(2, a.e2 - e2) * Pow(5, a.e5 - e5) * (b.d \div g)
             nb == b.n * Pow(2, b.e2 - e2) * Pow(5, b.e5 - e5) * (a.d \div g)
         IN  Norm(na + nb, (a.d \div g) * b.d, e2, e5)

RNeg(a) == [a EXCEPT !.n = -a.n]

RSub(a, b) == RAdd(a, RNeg(b))

---------------------------------------------------------------------------
(* The UnitType and Unit enumerations and the unit table.                  *)

TEMPERATURE == 0
LENGTH == 1
TIME == 2
MASS == 3
DIGITAL == 4

CELSIUS == 0
FAHRENHEIT == 1
KELVIN == 2
METERS == 3
CENTIMETERS == 4
DECIMETERS == 5
DECAMETERS == 6
HECTOMETERS == 7
KILOMETERS == 8
MILLIMETERS == 9
MILE == 10
INCHES == 11
FEET == 12
SECONDS == 13
MILLISECONDS == 14
MINUTES == 15
HOURS == 16
DAYS == 17
MONTHS == 18
YEARS == 19
GRAMS == 20
CENTIGRAMS == 21
DECIGRAMS == 22
DECAGRAMS == 23
HECTOGRAMS == 24
MILLIGRAMS == 25
KILOGRAMS == 26
POUNDS == 27
OUNCES == 28
BYTES == 29
KILOBYTES == 30
MEGABYTES == 31
GIGABYTES == 32
TERABYTES == 33
PETABYTES == 34
EXABYTES == 35

\* unit_table[u + 1] is the C entry unit_table[u]
unit_table ==
   << [type |-> TEMPERATURE, unit |-> CELSIUS, conversion_factor |-> Zero,
       name |-> <<"c","e","l","s","i","u","s">>],
      [type |-> TEMPERATURE, unit |-> FAHRENHEIT, conversion_factor |-> Zero,
       name |-> <<"f","a","h","r","e","n","h","e","i","t">>],
      [type |-> TEMPERATURE, unit |-> KELVIN, conversion_factor |-> Zero,
       name |-> <<"k","e","l","v","i","n">>],
      [type |-> LENGTH, unit |-> METERS, conversion_factor |-> Dec(1, 0),
       name |-> <<"m","e","t","e","r","s">>],
      [type |-> LENGTH, unit |-> CENTIMETERS, conversion_factor |-> Dec(100, 0),
       name |-> <<"c","e","n","t","i","m","e","t","e","r","s">>],
      [type |-> LENGTH, unit |-> DECIMETERS, conversion_factor |-> Dec(10, 0),
       name |-> <<"d","e","c","i","m","e","t","e","r","s">>],
      [type |-> LENGTH, unit |-> DECAMETERS, conversion_factor |-> Dec(1, 1),
       name |-> <<"d","e","c","a","m","e","t","e","r","s">>],
      [type |-> LENGTH, unit |-> HECTOMETERS, conversion_factor |-> Dec(1, 2),
       name |-> <<"h","e","c","t","o","m","e","t","e","r","s">>],
      [type |-> LENGTH, unit |-> KILOMETERS, conversion_factor |-> Dec(1, 3),
       name |-> <<"k","i","l","o","m","e","t","e","r","s">>],
      [type |-> LENGTH, unit |-> MILLIMETERS, conversion_factor |-> Dec(1000, 0),
       name |-> <<"m","i","l","l","i","m","e","t","e","r","s">>],
      [type |-> LENGTH, unit |-> MILE, conversion_factor |-> Dec(621371, 9),
       name |-> <<"m","i","l","e","s">>],
      [type |-> LENGTH, unit |-> INCHES, conversion_factor |-> Dec(393701, 4),
       name |-> <<"i","n","c","h","e","s">>],
      [type |-> LENGTH, unit |-> FEET, conversion_factor |-> Dec(328084, 5),
       name |-> <<"f","e","e","t">>],
      [type |-> TIME, unit |-> SECONDS, conversion_factor |-> Dec(1, 0),
       name |-> <<"s","e","c","o","n","d","s">>],
      [type |-> TIME, unit |-> MILLISECONDS, conversion_factor |-> Dec(1000, 0),
       name |-> <<"m","i","l","l","i","s","e","c","o","n","d","s">>],
      [type |-> TIME, unit |-> MINUTES, conversion_factor |-> RDiv(Dec(1, 0), Dec(60, 0)),
       name |-> <<"m","i","n","u","t","e","s">>],
      [type |-> TIME, unit |-> HOURS, conversion_factor |-> RDiv(Dec(1, 0), Dec(3600, 0)),
       name |-> <<"h","o","u","r","s">>],
      [type |-> TIME, unit |-> DAYS, conversion_factor |-> RDiv(Dec(1, 0), Dec(86400, 0)),
       name |-> <<"d","a","y","s">>],
      [type |-> TIME, unit |-> MONTHS, conversion_factor |-> RDiv(Dec(1, 0), Dec(2592000, 0)),
       name |-> <<"m","o","n","t","h","s">>],
      [type |-> TIME, unit |-> YEARS, conversion_factor |-> RDiv(Dec(1, 0), Dec(31536000, 0)),
       name |-> <<"y","e","a","r","s">>],
      [type |-> MASS, unit |-> GRAMS, conversion_factor |-> Dec(1, 0),
       name |-> <<"g","r","a","m","s">>],
      [type |-> MASS, unit |-> CENTIGRAMS, conversion_factor |-> Dec(100, 0),
       name |-> <<"c","e","n","t","i","g","r","a","m","s">>],
      [type |-> MASS, unit |-> DECIGRAMS, conversion_factor |-> Dec(10, 0),
       name |-> <<"d","e","c","i","g","r","a","m","s">>],
      [type |-> MASS, unit |-> DECAGRAMS, conversion_factor |-> Dec(1, 1),
       name |-> <<"d","e","c","a","g","r","a","m","s">>],
      [type |-> MASS, unit |-> HECTOGRAMS, conversion_factor |-> Dec(1, 2),
       name |-> <<"h","e","c","t","o","g","r","a","m","s">>],
      [type |-> MASS, unit |-> MILLIGRAMS, conversion_factor |-> Dec(1000, 0),
       name |-> <<"m","i","l","l","i","g","r","a","m","s">>],
      [type |-> MASS, unit |-> KILOGRAMS, conversion_factor |-> Dec(1, 3),
       name |-> <<"k","i","l","o","g","r","a","m","s">>],
      [type |-> MASS, unit |-> POUNDS, conversion_factor |-> Dec(220462, 8),
       name |-> <<"p","o","u","n","d","s">>],
      [type |-> MASS, unit |-> OUNCES, conversion_factor |-> Dec(3527396, 8),
       name |-> <<"o","u","n","c","e","s">>],
      [type |-> DIGITAL, unit |-> BYTES, conversion_factor |-> Dec(1, 0),
       name |-> <<"b","y","t","e","s">>],
      [type |-> DIGITAL, unit |-> KILOBYTES, conversion_factor |-> RDiv(Dec(1, 0), Bin(10)),
       name |-> <<"k","i","l","o","b","y","t","e","s">>],
      [type |-> DIGITAL, unit |-> MEGABYTES, conversion_factor |-> RDiv(Dec(1, 0), Bin(20)),
       name |-> <<"m","e","g","a","b","y","t","e","s">>],
      [type |-> DIGITAL, unit |-> GIGABYTES, conversion_factor |-> RDiv(Dec(1, 0), Bin(30)),
       name |-> <<"g","i","g","a","b","y","t","e","s">>],
      [type |-> DIGITAL, unit |-> TERABYTES, conversion_factor |-> RDiv(Dec(1, 0), Bin(40)),
       name |-> <<"t","e","r","a","b","y","t","e","s">>],
      [type |-> DIGITAL, unit |-> PETABYTES, conversion_factor |-> RDiv(Dec(1, 0), Bin(50)),
       name |-> <<"p","e","t","a","b","y","t","e","s">>],
      [type |-> DIGITAL, unit |-> EXABYTES, conversion_factor |-> RDiv(Dec(1, 0), Bin(60)),
       name |-> <<"e","x","a","b","y","t","e","s">>] >>

NUM_UNITS == Len(unit_table)

Units == 0 .. NUM_UNITS - 1

Entry(i) == unit_table[i + 1]

---------------------------------------------------------------------------
(* convertUnit.  The outcome of a call is either a returned double or the  *)
(* termination of the process by exit(1) inside the call.  `read` is the   *)
(* set of units whose conversion_factor the call has read, `printed` what  *)
(* the call has written to stdout.                                         *)

MSG_TYPES == "Cannot convert between different unit types."

Returned(x, read) ==
    [outcome |-> "return", value |-> x, read |-> read, printed |-> <<>>]

Exited(status, printed) ==
    [outcome |-> "exit", status |-> status, read |-> {}, printed |-> printed]

\* CaseDefault with a fault: the family check left out; the ratio inverted
CaseDefault_NoTypeCheck(value, from, to) ==
    LET factor == RDiv(Entry(from).conversion_factor,
                       Entry(to).conversion_factor)
    IN  Returned(RMul(value, factor), {from, to})

CaseDefault_Inverted(value, from, to) ==
    IF Entry(from).type # Entry(to).type
    THEN Exited(1, <<MSG_TYPES>>)
    ELSE LET factor == RDiv(Entry(to).conversion_factor,
                            Entry(from).conversion_factor)
         IN  Returned(RMul(value, factor), {from, to})

\* CaseDefault with a fault: the failure handed back to the caller
CaseDefault_ReturnsFailure(value, from, to) ==
    IF Entry(from).type # Entry(to).type
    THEN Returned(NonFinite, {})
    ELSE LET factor == RDiv(Entry(from).conversion_factor,
                            Entry(to).conversion_factor)
         IN  Returned(RMul(value, factor), {from, to})

\* default: of the outer switch
CaseDefault(value, from, to) ==
    IF Entry(from).type # Entry(to).type
    THEN Exited(1, <<MSG_TYPES>>)
    ELSE LET factor == RDiv(Entry(from).conversion_factor,
                            Entry(to).conversion_factor)
         IN  Returned(RMul(value, factor), {from, to})

\* CaseKelvin with a fault: 273 for 273.15 in Kelvin->Celsius
CaseKelvin_Truncated(value, from, to) ==
    IF to = CELSIUS
    THEN Returned(RSub(value, Dec(273, 0)), {})
    ELSE IF to = FAHRENHEIT
    THEN Returned(RAdd(RDiv(RMul(RSub(value, Dec(27315, 2)), Dec(9, 0)),
                            Dec(5, 0)), Dec(32, 0)), {})
    ELSE CaseDefault(value, from, to)

\* case KELVIN: its inner default breaks out of the inner switch only, and
\* control falls through into default:
CaseKelvin(value, from, to) ==
    IF to = CELSIUS
    THEN Returned(RSub(value, Dec(27315, 2)), {})
    ELSE IF to = FAHRENHEIT
    THEN Returned(RAdd(RDiv(RMul(RSub(value, Dec(27315, 2)), Dec(9, 0)),
                            Dec(5, 0)), Dec(32, 0)), {})
    ELSE CaseDefault(value, from, to)

\* CaseFahrenheit with a fault: no case KELVIN in the inner switch
CaseFahrenheit_NoKelvin(value, from, to) ==
    IF to = CELSIUS
    THEN Returned(RDiv(RMul(RSub(value, Dec(32, 0)), Dec(5, 0)), Dec(9, 0)), {})
    ELSE CaseKelvin(value, from, to)

\* case FAHRENHEIT: falls through into case KELVIN:
CaseFahrenheit(value, from, to) ==
    IF to = CELSIUS
    THEN Returned(RDiv(RMul(RSub(value, Dec(32, 0)), Dec(5, 0)), Dec(9, 0)), {})
    ELSE IF to = KELVIN
    THEN Returned(RAdd(RDiv(RMul(RSub(value, Dec(32, 0)), Dec(5, 0)),
                            Dec(9, 0)), Dec(27315, 2)), {})
    ELSE CaseKelvin(value, from, to)

\* CaseCelsius with a fault: no case KELVIN in the inner switch, so that
\* Celsius->Kelvin falls through into the Fahrenheit switch
CaseCelsius_NoKelvin(value, from, to) ==
    IF to = FAHRENHEIT
    THEN Returned(RAdd(RDiv(RMul(value, Dec(9, 0)), Dec(5, 0)), Dec(32, 0)), {})
    ELSE CaseFahrenheit(value, from, to)

\* case CELSIUS: falls through into case FAHRENHEIT:
CaseCelsius(value, from, to) ==
    IF to = FAHRENHEIT
    THEN Returned(RAdd(RDiv(RMul(value, Dec(9, 0)), Dec(5, 0)), Dec(32, 0)), {})
    ELSE IF to = KELVIN
    THEN Returned(RAdd(value, Dec(27315, 2)), {})
    ELSE CaseFahrenheit(value, from, to)

convertUnit(value, from, to) ==
    IF from = to THEN Returned(value, {})
    ELSE CASE from = CELSIUS    -> CaseCelsius(value, from, to)
           [] from = FAHRENHEIT -> CaseFahrenheit(value, from, to)
           [] from = KELVIN     -> CaseKelvin(value, from, to)
           [] OTHER             -> CaseDefault(value, from, to)

---------------------------------------------------------------------------
(* Specification SpecConvert: convertUnit applied to every pair of units   *)
(* and a bounded set of values, then applied back to its own result.       *)

MaxMant == 3
MaxFrac == 1

ConvValues ==
    {Dec(m, k) : m \in -MaxMant .. MaxMant, k \in 0 .. MaxFrac}
        \cup {Dec(60, 0), Dec(1024, 0), Dec(100, 0)}

Idle == [phase |-> "idle"]

InitC ==
    /\ conv \in {[phase |-> "input", value |-> v, from |-> f, to |-> t] :
                    v \in ConvValues, f \in Units, t \in Units}
    /\ lk = Idle
    /\ pc = "idle" /\ argv = <<>> /\ main = Idle /\ call = Idle
    /\ out = <<>> /\ exit = Idle

Convert ==
    /\ conv.phase = "input"
    /\ conv' = [phase |-> "converted", value |-> conv.value,
                from |-> conv.from, to |-> conv.to,
                res |-> convertUnit(conv.value, conv.from, conv.to)]
    /\ UNCHANGED <<pc, argv, main, call, out, exit, lk>>

ConvertBack ==
    /\ conv.phase = "converted"
    /\ conv.res.outcome = "return"
    /\ conv' = [phase |-> "back", value |-> conv.value,
                from |-> conv.from, to |-> conv.to, res |-> conv.res,
                back |-> convertUnit(conv.res.value, conv.to, conv.from)]
    /\ UNCHANGED <<pc, argv, main, call, out, exit, lk>>

NextC == Convert \/ ConvertBack

SpecConvert == InitC /\ [][NextC]_vars

---------------------------------------------------------------------------
(* Claims about convertUnit, checked under SpecConvert.                    *)

Called == conv.phase \in {"converted", "back"}

TypeOf(u) == Entry(u).type

Factor(u) == Entry(u).conversion_factor

ScalarPair(f, t) == TypeOf(f) = TypeOf(t) /\ TypeOf(f) # TEMPERATURE

\* what value from-units are in to-units when a unit's factor is the number
\* of that unit in one base unit of the family
Physical(value, f, t) == RMul(value, RDiv(Factor(t), Factor(f)))

\* C1: convertUnit on two scalar units of one family gives the physically
\* correct result, given that a scale factor is the number of units per base
\* unit: convert(1, Kilometers, Meters) = 1000, convert(1024, Bytes,
\* Kilobytes) = 1, convert(60, Minutes, Seconds) = 3600.
C1_PhysicallyCorrect ==
    (Called /\ ScalarPair(conv.from, conv.to))
        => /\ conv.res.outcome = "return"
           /\ conv.res.value = Physical(conv.value, conv.from, conv.to)

\* C3: for units of different families convertUnit ends in the
\* incompatible-families failure and returns no value.
C3_IncompatibleFamilies ==
    (Called /\ TypeOf(conv.from) # TypeOf(conv.to))
        => /\ conv.res.outcome = "exit"
           /\ conv.res.status = 1
           /\ conv.res.printed = <<MSG_TYPES>>

C3_Witness ==
    /\ Called
    /\ conv.from = CELSIUS /\ conv.to = METERS
    /\ conv.res.outcome = "exit"

\* the closed-form formula of each ordered pair of distinct Temperature units
Formula(value, f, t) ==
    CASE f = CELSIUS /\ t = FAHRENHEIT ->
            RAdd(RDiv(RMul(value, Dec(9, 0)), Dec(5, 0)), Dec(32, 0))
      [] f = CELSIUS /\ t = KELVIN -> RAdd(value, Dec(27315, 2))
      [] f = FAHRENHEIT /\ t = CELSIUS ->
            RDiv(RMul(RSub(value, Dec(32, 0)), Dec(5, 0)), Dec(9, 0))
      [] f = FAHRENHEIT /\ t = KELVIN ->
            RAdd(RDiv(RMul(RSub(value, Dec(32, 0)), Dec(5, 0)), Dec(9, 0)),
                 Dec(27315, 2))
      [] f = KELVIN /\ t = CELSIUS -> RSub(value, Dec(27315, 2))
      [] f = KELVIN /\ t = FAHRENHEIT ->
            RAdd(RDiv(RMul(RSub(value, Dec(27315, 2)), Dec(9, 0)), Dec(5, 0)),
                 Dec(32, 0))

\* C4: for each of the six ordered pairs of distinct Temperature units
\* convertUnit returns the closed-form formula of that very pair; the
\* fall-through between the outer cases never applies another pair's formula.
C4_TemperatureFormulas ==
    (/\ Called
     /\ TypeOf(conv.from) = TEMPERATURE /\ TypeOf(conv.to) = TEMPERATURE
     /\ conv.from # conv.to)
        => /\ conv.res.outcome = "return"
           /\ conv.res.value = Formula(conv.value, conv.from, conv.to)

C4_Witness ==
    /\ Called
    /\ conv.from = CELSIUS /\ conv.to = KELVIN /\ conv.value = Dec(100, 0)
    /\ conv.res.outcome = "return" /\ conv.res.value = Dec(37315, 2)

\* C8: converting from A to B and back from B to A gives the value started
\* from, for every pair of units of one family (exact arithmetic).
C8_RoundTrip ==
    (Called /\ TypeOf(conv.from) = TypeOf(conv.to))
        => /\ conv.res.outcome = "return"
           /\ conv.phase = "back"
                => /\ conv.back.outcome = "return"
                   /\ conv.back.value = conv.value

C8_Witness ==
    /\ conv.phase = "back"
    /\ conv.from = KELVIN /\ conv.to = CELSIUS /\ conv.value = Dec(100, 0)
    /\ conv.res.value = Dec(-17315, 2)
    /\ conv.back.value = Dec(100, 0)

\* C9: for two distinct non-Temperature units of one family convertUnit
\* returns value * (factor(from) / factor(to)).
C9_ScalarRatio ==
    (Called /\ ScalarPair(conv.from, conv.to) /\ conv.from # conv.to)
        => /\ conv.res.outcome = "return"
           /\ conv.res.value =
                RMul(conv.value, RDiv(Factor(conv.from), Factor(conv.to)))

C9_Witness ==
    /\ Called
    /\ conv.from = KILOMETERS /\ conv.to = METERS /\ conv.value = Dec(1, 0)
    /\ conv.res.outcome = "return" /\ conv.res.value = Dec(1, 3)

FactorsRead ==
    conv.res.read \cup (IF conv.phase = "back" THEN conv.back.read ELSE {})

\* C10: no call of convertUnit reads the conversion_factor of a Temperature
\* unit, so the ratio is never computed from a zero factor.
C10_TemperatureFactorUnread ==
    Called => \A u \in FactorsRead :
                 TypeOf(u) # TEMPERATURE /\ Factor(u) # Zero

C10_Witness ==
    /\ conv.phase = "back"
    /\ conv.from = FAHRENHEIT /\ conv.to = KELVIN
    /\ conv.res.outcome = "return" /\ conv.back.outcome = "return"
    /\ FactorsRead = {}

---------------------------------------------------------------------------
(* Strings and matchArgument.                                              *)

UpperCase ==
    <<"A","B","C","D","E","F","G","H","I","J","K","L","M",
      "N","O","P","Q","R","S","T","U","V","W","X","Y","Z">>

LowerCase ==
    <<"a","b","c","d","e","f","g","h","i","j","k","l","m",
      "n","o","p","q","r","s","t","u","v","w","x","y","z">>

tolower(c) ==
    IF \E k \in 1 .. 26 : UpperCase[k] = c
    THEN LowerCase[CHOOSE k \in 1 .. 26 : UpperCase[k] = c]
    ELSE c

\* 0 when the two strings are equal up to the case of their letters
strcasecmp(a, b) ==
    IF /\ Len(a) = Len(b)
       /\ \A i \in 1 .. Len(a) : tolower(a[i]) = tolower(b[i])
    THEN 0
    ELSE 1

NOT_FOUND == -1

\* matchArgument with a fault: the names compared with strcmp
RECURSIVE matchFrom_Strcmp(_, _)
matchFrom_Strcmp(arg, i) ==
    IF i >= NUM_UNITS THEN NOT_FOUND
    ELSE IF arg = Entry(i).name THEN Entry(i).unit
    ELSE matchFrom_Strcmp(arg, i + 1)

matchArgument_Strcmp(arg) == matchFrom_Strcmp(arg, 0)

\* the scan of the table from entry i on
RECURSIVE matchFrom(_, _)
matchFrom(arg, i) ==
    IF i >= NUM_UNITS THEN NOT_FOUND
    ELSE IF strcasecmp(arg, Entry(i).name) = 0 THEN Entry(i).unit
    ELSE matchFrom(arg, i + 1)

matchArgument(arg) == matchFrom(arg, 0)

---------------------------------------------------------------------------
(* Specification SpecMatch: matchArgument applied to the registered names  *)
(* in several spellings and to strings that are no unit name.              *)

MaxUpper == 2

toupper(c) ==
    IF \E k \in 1 .. 26 : LowerCase[k] = c
    THEN UpperCase[CHOOSE k \in 1 .. 26 : LowerCase[k] = c]
    ELSE c

\* s with its first k characters in upper case
UpperFirst(s, k) == [i \in 1 .. Len(s) |-> IF i <= k THEN toupper(s[i]) ELSE s[i]]

TableNames == {Entry(u).name : u \in Units}

LookupArgs ==
    {UpperFirst(s, k) : s \in TableNames, k \in 0 .. MaxUpper}
        \cup {UpperFirst(s, Len(s)) : s \in TableNames}
        \cup {SubSeq(s, 1, Len(s) - 1) : s \in TableNames}
        \cup {Append(s, "s") : s \in TableNames}
        \cup {<<>>, <<"f","r","o","m">>, <<"t","o">>,
              <<"p","a","r","s","e","c","s">>, <<"k","e","l","v","1","n">>}

InitM ==
    /\ lk \in {[phase |-> "input", arg |-> a] : a \in LookupArgs}
    /\ conv = Idle
    /\ pc = "idle" /\ argv = <<>> /\ main = Idle /\ call = Idle
    /\ out = <<>> /\ exit = Idle

Lookup ==
    /\ lk.phase = "input"
    /\ lk' = [phase |-> "done", arg |-> lk.arg, res |-> matchArgument(lk.arg)]
    /\ UNCHANGED <<pc, argv, main, call, out, exit, conv>>

NextM == Lookup

SpecMatch == InitM /\ [][NextM]_vars

\* equality of two strings up to the case of their letters
EqualIgnoringCase(a, b) ==
    /\ Len(a) = Len(b)
    /\ \A i \in 1 .. Len(a) :
          \/ a[i] = b[i]
          \/ \E k \in 1 .. 26 : {a[i], b[i]} = {UpperCase[k], LowerCase[k]}

Matching(arg) == {u \in Units : EqualIgnoringCase(arg, Entry(u).name)}

\* C6: matchArgument(name) returns unit U exactly when name is U's
\* registered name up to letter case, at most one entry matches a name (no
\* two registered names are equal up to letter case), and the result is -1
\* for a name that matches no entry.
C6_Lookup ==
    /\ \A u, w \in Units :
          EqualIgnoringCase(Entry(u).name, Entry(w).name) => u = w
    /\ lk.phase = "done"
          => /\ Cardinality(Matching(lk.arg)) <= 1
             /\ \A u \in Units : lk.res = u <=> u \in Matching(lk.arg)
             /\ Matching(lk.arg) = {} <=> lk.res = NOT_FOUND

C6_Witness ==
    /\ lk.phase = "done"
    /\ lk.arg = <<"K","E","L","V","I","N">>
    /\ lk.res = KELVIN

---------------------------------------------------------------------------
(* isNumeric and the C library's atof, atoi and getopt_long, on the        *)
(* strings the model passes to them: no white space, no exponent.          *)

Digits == <<"0","1","2","3","4","5","6","7","8","9">>

isdigit(c) == \E k \in 1 .. 10 : Digits[k] = c

DigitValue(c) == (CHOOSE k \in 1 .. 10 : Digits[k] = c) - 1

\* the loop of isNumeric from position i (1-based) on
RECURSIVE isNumericFrom(_, _, _)
isNumericFrom(str, i, dotCount) ==
    IF i > Len(str) THEN TRUE
    ELSE IF isdigit(str[i]) THEN isNumericFrom(str, i + 1, dotCount)
    ELSE IF str[i] = "." /\ dotCount = 0 THEN isNumericFrom(str, i + 1, dotCount + 1)
    ELSE FALSE

isNumeric(str) ==
    IF str = <<>> THEN FALSE
    ELSE isNumericFrom(str, IF str[1] \in {"-", "+"} THEN 2 ELSE 1, 0)

Signed(str) == str # <<>> /\ str[1] \in {"-", "+"}

Sign(str) == IF str # <<>> /\ str[1] = "-" THEN -1 ELSE 1

\* atoi: an optional sign and the digits up to the first other character
RECURSIVE atoiFrom(_, _, _)
atoiFrom(str, i, acc) ==
    IF i > Len(str) \/ ~isdigit(str[i]) THEN acc
    ELSE atoiFrom(str, i + 1, acc * 10 + DigitValue(str[i]))

atoi(str) == Sign(str) * atoiFrom(str, IF Signed(str) THEN 2 ELSE 1, 0)

\* atof: an optional sign, digits and at most one point, up to the first
\* other character; no digit at all gives 0
RECURSIVE atofFrom(_, _, _, _, _)
atofFrom(str, i, mant, frac, seenDot) ==
    IF i > Len(str) THEN Dec(mant, frac)
    ELSE IF isdigit(str[i])
         THEN atofFrom(str, i + 1, mant * 10 + DigitValue(str[i]),
                       IF seenDot THEN frac + 1 ELSE frac, seenDot)
    ELSE IF str[i] = "." /\ ~seenDot THEN atofFrom(str, i + 1, mant, frac, TRUE)
    ELSE Dec(mant, frac)

atof(str) ==
    LET x == atofFrom(str, IF Signed(str) THEN 2 ELSE 1, 0, 0, FALSE)
    IN  IF Sign(str) < 0 THEN RNeg(x) ELSE x

IsPrefix(p, s) == Len(p) <= Len(s) /\ SubSeq(s, 1, Len(p)) = p

long_options ==
    << [name |-> <<"r", "o", "u", "n", "d">>,   has_arg |-> TRUE,  val |-> "r"],
       [name |-> <<"s", "h", "o", "w">>,    has_arg |-> FALSE, val |-> "s"],
       [name |-> <<"h", "e", "l", "p">>,    has_arg |-> FALSE, val |-> "h"],
       [name |-> <<"v", "e", "r", "s", "i", "o", "n">>, has_arg |-> FALSE, val |-> "v"] >>

Unknown == [opt |-> "?", optarg |-> <<>>, consumed |-> 1]

\* one short option element "-c..." under the option string "r:shv"
ShortOption(tok, hasNext, next) ==
    IF tok[2] = "r"
    THEN IF Len(tok) > 2
         THEN [opt |-> "r", optarg |-> SubSeq(tok, 3, Len(tok)), consumed |-> 1]
         ELSE IF hasNext THEN [opt |-> "r", optarg |-> next, consumed |-> 2]
         ELSE Unknown
    ELSE IF tok[2] \in {"s", "h", "v"}
    THEN [opt |-> tok[2], optarg |-> <<>>, consumed |-> 1]
    ELSE Unknown

\* one long option element "--name" or "--name=arg"; a name may be
\* abbreviated to any prefix that fits one option only
LongOption(tok, hasNext, next) ==
    LET body   == SubSeq(tok, 3, Len(tok))
        eqs    == {i \in 1 .. Len(body) : body[i] = "="}
        hasEq  == eqs # {}
        eq     == IF hasEq THEN CHOOSE i \in eqs : \A j \in eqs : i <= j
                  ELSE Len(body) + 1
        name   == SubSeq(body, 1, eq - 1)
        arg    == SubSeq(body, eq + 1, Len(body))
        fits   == {k \in 1 .. Len(long_options) :
                      name # <<>> /\ IsPrefix(name, long_options[k].name)}
    IN  IF Cardinality(fits) # 1 THEN Unknown
        ELSE LET o == long_options[CHOOSE k \in fits : TRUE]
             IN  IF o.has_arg
                 THEN IF hasEq THEN [opt |-> o.val, optarg |-> arg, consumed |-> 1]
                      ELSE IF hasNext
                      THEN [opt |-> o.val, optarg |-> next, consumed |-> 2]
                      ELSE Unknown
                 ELSE IF hasEq THEN Unknown
                 ELSE [opt |-> o.val, optarg |-> <<>>, consumed |-> 1]

\* The while loop over getopt_long, from element i of args (argv[1..]) on.
\* GNU getopt_long permutes argv: the elements that are no options end up at
\* argv[optind..], in their order; `operands` collects them.
RECURSIVE OptionLoop(_, _, _, _)
OptionLoop(args, i, round_places, operands) ==
    IF i > Len(args)
    THEN [opt |-> "end", round_places |-> round_places, operands |-> operands]
    ELSE IF args[i] = <<"-", "-">>
    THEN [opt |-> "end", round_places |-> round_places,
          operands |-> operands \o SubSeq(args, i + 1, Len(args))]
    ELSE IF Len(args[i]) > 1 /\ args[i][1] = "-"
    THEN LET hasNext == i < Len(args)
             next    == IF hasNext THEN args[i + 1] ELSE <<>>
             g       == IF args[i][2] = "-"
                        THEN LongOption(args[i], hasNext, next)
                        ELSE ShortOption(args[i], hasNext, next)
         IN  IF g.opt = "r"
             THEN OptionLoop(args, i + g.consumed, atoi(g.optarg), operands)
             ELSE [opt |-> g.opt, round_places |-> round_places,
                   operands |-> operands]
    ELSE OptionLoop(args, i + 1, round_places, Append(operands, args[i]))

\* The for loop looking for the keywords, over argv[i] with
\* optind + 1 <= i < argc - 1; positions are counted from optind = 1.
RECURSIVE KeywordLoop(_, _, _, _)
KeywordLoop(operands, i, fromPos, toPos) ==
    IF i >= Len(operands) THEN [fromPos |-> fromPos, toPos |-> toPos]
    ELSE IF strcasecmp(operands[i], <<"f", "r", "o", "m">>) = 0
    THEN KeywordLoop(operands, i + 1, i + 1, toPos)
    ELSE IF strcasecmp(operands[i], <<"t", "o">>) = 0
    THEN KeywordLoop(operands, i + 1, fromPos, i + 1)
    ELSE KeywordLoop(operands, i + 1, fromPos, toPos)

---------------------------------------------------------------------------
(* The process: main, one action per stretch of main between two of the    *)
(* places where it can end, and one action for its call of convertUnit.    *)
(* `out` is what has been written, each entry with the function that wrote *)
(* it; `exit` is how the process ended: its status and the function that   *)
(* ended it, by a return from main or by a call of exit().                 *)
(*                                                                         *)
(* The result line is kept as the arguments of its printf.  Line 210       *)
(* rounds result to round_places decimals and the %.*f conversions print   *)
(* decimal_places decimals, so the text printed is determined by           *)
(* decimal_places and the two doubles; decimal digits are not computed.    *)

Line(fn, stream, text) == [fn |-> fn, stream |-> stream, text |-> text]

MSG_OPTION == "Use '-h, --help' for help."
MSG_COUNT ==
    "Invalid command format. Please provide the correct number of arguments."
MSG_VALUE == "Invalid value provided. Please provide a valid numeric value."
MSG_KEYWORDS ==
    "Invalid command format. Please provide both 'from' and 'to' units."
MSG_UNITS == "Invalid units provided. Please provide valid units."

displayHelp == Line("displayHelp", "stdout", "Usage: unicon [OPTIONS] VALUE from <UNIT> to <UNIT> ...")

displayVersion == Line("displayVersion", "stdout", "unicon v0.1")

displayUnits == Line("displayUnits", "stdout", "Supported units: ...")

ResultLine(decimal_places, value, from, result, to) ==
    [fn |-> "main", stream |-> "stdout", text |-> "%.*f %s = %.*f %s",
     decimal_places |-> decimal_places, value |-> value,
     from_name |-> Entry(from).name, result |-> result,
     to_name |-> Entry(to).name]

\* the locals of main; those not yet assigned hold a placeholder that no
\* action reads (fromPos and toPos start at -1 in the code)
Locals ==
    [round_places |-> -1, operands |-> <<>>, value |-> Zero,
     fromPos |-> -1, toPos |-> -1, from |-> NOT_FOUND, to |-> NOT_FOUND,
     result |-> Zero]

Ended(status, fn, how) == [status |-> status, fn |-> fn, how |-> how]

Init ==
    /\ pc = "idle" /\ argv = <<>> /\ main = Idle /\ call = Idle
    /\ out = <<>> /\ exit = Idle
    /\ conv = Idle /\ lk = Idle

\* main returns `status` after writing `lines`
Return(status, lines) ==
    /\ out' = out \o lines
    /\ exit' = Ended(status, "main", "return")
    /\ pc' = "done"
    /\ UNCHANGED <<argv, main, call, conv, lk>>

\* lines 116-154: no argument at all, and the loop over the options
ParseOptions ==
    /\ pc = "options"
    /\ IF argv = <<>>
       THEN Return(0, <<displayHelp>>)
       ELSE LET g == OptionLoop(argv, 1, -1, <<>>)
            IN  CASE g.opt = "h" -> Return(0, <<displayHelp>>)
                  [] g.opt = "v" -> Return(0, <<displayVersion>>)
                  [] g.opt = "s" -> Return(0, <<displayUnits>>)
                  [] g.opt = "?" ->
                        Return(1, <<Line("getopt_long", "stderr", "unicon: invalid option"),
                                    Line("main", "stderr", MSG_OPTION)>>)
                  [] g.opt = "end" ->
                        /\ main' = [main EXCEPT !.round_places = g.round_places,
                                                !.operands = g.operands]
                        /\ pc' = "format"
                        /\ UNCHANGED <<argv, call, out, exit, conv, lk>>

\* lines 156-187: the number of arguments, the value, the two keywords
CheckFormat ==
    /\ pc = "format"
    /\ IF Len(main.operands) # 5
       THEN Return(1, <<Line("main", "stdout", MSG_COUNT), displayHelp>>)
       ELSE IF ~isNumeric(main.operands[1])
       THEN Return(1, <<Line("main", "stdout", MSG_VALUE)>>)
       ELSE LET k == KeywordLoop(main.operands, 2, -1, -1)
            IN  IF k.fromPos = -1 \/ k.toPos = -1
                THEN Return(1, <<Line("main", "stdout", MSG_KEYWORDS), displayHelp>>)
                ELSE /\ main' = [main EXCEPT !.value = atof(main.operands[1]),
                                             !.fromPos = k.fromPos,
                                             !.toPos = k.toPos]
                     /\ pc' = "lookup"
                     /\ UNCHANGED <<argv, call, out, exit, conv, lk>>

\* lines 189-198: the two units
LookupUnits ==
    /\ pc = "lookup"
    /\ LET from == matchArgument(main.operands[main.fromPos])
           to   == matchArgument(main.operands[main.toPos])
       IN  IF from = -1 \/ to = -1
           THEN Return(1, <<Line("main", "stdout", MSG_UNITS), displayHelp>>)
           ELSE /\ main' = [main EXCEPT !.from = from, !.to = to]
                /\ pc' = "convert"
                /\ UNCHANGED <<argv, call, out, exit, conv, lk>>

\* lines 200-206: the call of convertUnit, its arguments ordered by the
\* position of the two units in the enumeration
CallConvertUnit ==
    /\ pc = "convert"
    /\ call' = IF main.from < main.to
               THEN [value |-> main.value, from |-> main.from, to |-> main.to]
               ELSE [value |-> main.value, from |-> main.to, to |-> main.from]
    /\ pc' = "convertUnit"
    /\ UNCHANGED <<argv, main, out, exit, conv, lk>>

\* lines 246-288: convertUnit runs: it returns to main, or ends the process
ConvertUnit ==
    /\ pc = "convertUnit"
    /\ LET r == convertUnit(call.value, call.from, call.to)
       IN  IF r.outcome = "return"
           THEN /\ main' = [main EXCEPT !.result = r.value]
                /\ pc' = "print"
                /\ UNCHANGED <<argv, call, out, exit, conv, lk>>
           ELSE /\ out' = out \o [i \in 1 .. Len(r.printed) |->
                                     Line("convertUnit", "stdout", r.printed[i])]
                /\ exit' = Ended(r.status, "convertUnit", "exit")
                /\ pc' = "done"
                /\ UNCHANGED <<argv, main, call, conv, lk>>

\* lines 208-219: the result line
PrintResult ==
    /\ pc = "print"
    /\ LET decimal_places == IF main.round_places >= 0 THEN main.round_places ELSE 2
       IN  Return(0, <<ResultLine(decimal_places, main.value, main.from,
                                  main.result, main.to)>>)

---------------------------------------------------------------------------
(* Specification Spec: the program run on a bounded set of command lines.  *)

MaxValueLen == 2
MaxRound == 2

ValueAlphabet == {"1", "5", ".", "+", "-", "x"}

ValueStrings == UNION {[1 .. n -> ValueAlphabet] : n \in 1 .. MaxValueLen}

Cmd(v, a, b) == <<v, <<"f", "r", "o", "m">>, a, <<"t", "o">>, b>>

RoundArgs == {<<Digits[k + 1]>> : k \in 0 .. MaxRound} \cup {<<"a", "b", "c">>, <<"-", "1">>}

OptionElements ==
    UNION {{<<<<"-", "r">>, d>>, <<<<"-", "r">> \o d>>, <<<<"-", "-", "r", "o", "u", "n", "d">>, d>>,
            <<<<"-", "-", "r", "o", "u", "n", "d", "=">> \o d>>, <<<<"-", "-", "r", "o">>, d>>} : d \in RoundArgs}
        \cup {<<<<"-", "h">>>>, <<<<"-", "-", "h", "e", "l", "p">>>>, <<<<"-", "v">>>>, <<<<"-", "-", "v", "e", "r", "s", "i", "o", "n">>>>,
              <<<<"-", "s">>>>, <<<<"-", "-", "s", "h", "o", "w">>>>, <<<<"-", "x">>>>, <<<<"-", "-", "b", "o", "g", "u", "s">>>>,
              <<<<"-", "r">>>>, <<<<"-", "-", "h", "e", "l", "p", "=", "1">>>>, <<<<"-", "-">>>>}

SampleCommands ==
    {<<>>, Cmd(<<"1">>, <<"k", "i", "l", "o", "m", "e", "t", "e", "r", "s">>, <<"m", "e", "t", "e", "r", "s">>), Cmd(<<"2", ".", "5">>, <<"c", "e", "l", "s", "i", "u", "s">>, <<"k", "e", "l", "v", "i", "n">>),
     Cmd(<<"1">>, <<"c", "e", "l", "s", "i", "u", "s">>, <<"m", "e", "t", "e", "r", "s">>), Cmd(<<"1">>, <<"p", "a", "r", "s", "e", "c", "s">>, <<"m", "e", "t", "e", "r", "s">>)}

Malformed ==
    {<<<<"1">>>>, <<<<"1">>, <<"f", "r", "o", "m">>, <<"m", "e", "t", "e", "r", "s">>, <<"t", "o">>>>,
     <<<<"1">>, <<"f", "r", "o", "m">>, <<"m", "e", "t", "e", "r", "s">>, <<"t", "o">>, <<"f", "e", "e", "t">>, <<"n", "o", "w">>>>,
     <<<<"1">>, <<"o", "f">>, <<"m", "e", "t", "e", "r", "s">>, <<"t", "o">>, <<"f", "e", "e", "t">>>>,
     <<<<"1">>, <<"f", "r", "o", "m">>, <<"m", "e", "t", "e", "r", "s">>, <<"i", "n", "t", "o">>, <<"f", "e", "e", "t">>>>,
     <<<<"1">>, <<"m", "e", "t", "e", "r", "s">>, <<"f", "e", "e", "t">>, <<"f", "r", "o", "m">>, <<"t", "o">>>>,
     <<<<"1">>, <<"f", "r", "o", "m">>, <<"f", "r", "o", "m">>, <<"t", "o">>, <<"f", "e", "e", "t">>>>,
     <<<<"1">>, <<"f", "r", "o", "m">>, <<"m", "e", "t", "e", "r", "s">>, <<"f", "r", "o", "m">>, <<"f", "e", "e", "t">>>>,
     <<<<"1">>, <<"t", "o">>, <<"m", "e", "t", "e", "r", "s">>, <<"t", "o">>, <<"f", "e", "e", "t">>>>,
     <<<<"1">>, <<"t", "o">>, <<"m", "e", "t", "e", "r", "s">>, <<"f", "r", "o", "m">>, <<"f", "e", "e", "t">>>>,
     <<<<"1">>, <<"F", "R", "O", "M">>, <<"m", "e", "t", "e", "r", "s">>, <<"T", "o">>, <<"f", "e", "e", "t">>>>,
     <<<<"f", "r", "o", "m">>, <<"1">>, <<"m", "e", "t", "e", "r", "s">>, <<"t", "o">>, <<"f", "e", "e", "t">>>>,
     <<<<"-", "4", "0">>, <<"f", "r", "o", "m">>, <<"c", "e", "l", "s", "i", "u", "s">>, <<"t", "o">>, <<"f", "a", "h", "r", "e", "n", "h", "e", "i", "t">>>>,
     <<<<"-", "-">>, <<"-", "4", "0">>, <<"f", "r", "o", "m">>, <<"c", "e", "l", "s", "i", "u", "s">>, <<"t", "o">>, <<"f", "a", "h", "r", "e", "n", "h", "e", "i", "t">>>>,
     <<<<"-", "-">>, <<"-", "4", "0">>, <<"f", "r", "o", "m">>, <<"f", "a", "h", "r", "e", "n", "h", "e", "i", "t">>, <<"t", "o">>, <<"c", "e", "l", "s", "i", "u", "s">>>>}

ArgvSet ==
    {Cmd(v, a, b) : v \in {<<"1">>, <<"2", ".", "5">>}, a \in TableNames, b \in TableNames}
        \cup {Cmd(v, <<"m", "e", "t", "e", "r", "s">>, <<"f", "e", "e", "t">>) : v \in ValueStrings}
        \cup {Cmd(v, <<"k", "e", "l", "v", "i", "n">>, <<"c", "e", "l", "s", "i", "u", "s">>) : v \in ValueStrings}
        \cup {Cmd(<<"1">>, a, <<"K", "e", "l", "v", "i", "n">>) : a \in LookupArgs}
        \cup {Cmd(<<"1">>, <<"m", "e", "t", "e", "r", "s">>, b) : b \in LookupArgs}
        \cup {p \o c : p \in OptionElements, c \in SampleCommands}
        \cup {c \o p : p \in OptionElements, c \in SampleCommands}
        \cup Malformed

\* the program is started with the arguments argv[1..]
Exec ==
    /\ pc = "idle"
    /\ \E a \in ArgvSet : argv' = a
    /\ main' = Locals
    /\ pc' = "options"
    /\ UNCHANGED <<call, out, exit, conv, lk>>

Next ==
    \/ Exec
    \/ ParseOptions
    \/ CheckFormat
    \/ LookupUnits
    \/ CallConvertUnit
    \/ ConvertUnit
    \/ PrintResult

Spec == Init /\ [][Next]_vars

---------------------------------------------------------------------------
(* Claims about the program run, checked under Spec.                       *)

ResultLines == {i \in 1 .. Len(out) : out[i].text = "%.*f %s = %.*f %s"}

\* C2: for an accepted command VALUE from A to B the result printed is
\* convertUnit(VALUE, A, B), A the source and B the target, whatever the
\* order of A and B in the Unit enumeration.
C2_PrintsConversionFromAToB ==
    (pc = "done" /\ ResultLines # {})
        => LET r == convertUnit(main.value, main.from, main.to)
           IN  /\ r.outcome = "return"
               /\ \A i \in ResultLines : out[i].result = r.value

IsNumeral(s) ==
    LET body == IF Signed(s) THEN Tail(s) ELSE s
    IN  /\ \A i \in 1 .. Len(body) : isdigit(body[i]) \/ body[i] = "."
        /\ Cardinality({i \in 1 .. Len(body) : body[i] = "."}) <= 1
        /\ \E i \in 1 .. Len(body) : isdigit(body[i])

HasKeyword(ops, kw) == \E i \in 2 .. Len(ops) - 1 : EqualIgnoringCase(ops[i], kw)

\* the failures of a command line a: of parsing (an unknown option, a wrong
\* number of arguments, a value that is no number, a keyword missing), of
\* lookup (a unit name that is not registered), of conversion (two families)
ParseFailure(a) ==
    LET g == OptionLoop(a, 1, -1, <<>>)
    IN  /\ a # <<>>
        /\ \/ g.opt = "?"
           \/ /\ g.opt = "end"
              /\ \/ Len(g.operands) # 5
                 \/ ~IsNumeral(g.operands[1])
                 \/ ~HasKeyword(g.operands, <<"f", "r", "o", "m">>)
                 \/ ~HasKeyword(g.operands, <<"t", "o">>)

Command(a) == a # <<>> /\ OptionLoop(a, 1, -1, <<>>).opt = "end" /\ ~ParseFailure(a)

LookupFailure(a) ==
    /\ Command(a)
    /\ \/ Matching(main.operands[main.fromPos]) = {}
       \/ Matching(main.operands[main.toPos]) = {}

ConversionFailure(a) ==
    /\ Command(a)
    /\ ~LookupFailure(a)
    /\ TypeOf(main.from) # TypeOf(main.to)

Failure(a) == ParseFailure(a) \/ LookupFailure(a) \/ ConversionFailure(a)

\* C7: the exit status is 1 on every failure of parsing, lookup or
\* conversion and 0 otherwise, and no result line is printed on a failure.
C7_ExitStatus ==
    pc = "done"
        => /\ exit.status = IF Failure(argv) THEN 1 ELSE 0
           /\ Failure(argv) => ResultLines = {}

=============================================================================
